---- MODULE Spec2Model ----
(***************************************************************************)
(* The claim lifecycle of the lost-and-found portal: the Item, Claim and    *)
(* User collections, the route handlers of routes/items.js,                *)
(* routes/claims.js and routes/admin.js that write them, and the model     *)
(* hooks that keep the items' cached claim counts.                         *)
(***************************************************************************)
EXTENDS Integers, Sequences, FiniteSets, Bags, TLC

\* Bounds of the model.
MaxItems == 2
MaxClaims == 2
MaxReqs == 2
MaxTasks == 3
MaxAdds == 3
MaxNotes == 2
MaxContacts == 2
MaxCats == 2

\* "Keep only latest 50 notifications"
NotificationCap == 50

\* Registered accounts; the session of u3 carries role 'admin'.
UserIds == {"u1", "u2", "u3"}
AdminIds == {"u3"}
NoUser == "none"

ItemTypes == {"lost", "found"}

\* Category names as a request may spell them; NoName where nothing is stored.
Names == {"keys", "phones", "bags"}
NoName == "none"
\* The names item reports carry.
ReportedNames == {"keys", "phones"}

VARIABLES
    items,   \* the Item collection: a sequence indexed by item id
    claims,  \* the Claim collection: a sequence indexed by claim id
    resp,    \* outcome of the last request (redirect code / flash / JSON message)
    reqs,    \* bag of the claim submissions in progress, each suspended at an await
    users,   \* the User collection: the ids of the stored accounts
    notes,   \* User.notifications of each account, newest first
    contactHistory, \* Claim.contactHistory of each claim, oldest first
    effects, \* what the email send and the notification save of the last request did
    stats,   \* Item.stats of each item (the cached claim counts)
    tasks,   \* bag of the deferred stats recomputations (setTimeout callbacks)
    unseen,  \* items whose claims were written after the last recomputation read them
    suspended,    \* the accounts whose isSuspended is true
    categories,   \* the Category collection: the name stored at each category id
    itemCategory, \* Item.category of each item
    production    \* whether process.env.NODE_ENV is 'production'

vars == <<items, claims, resp, reqs, users, notes, contactHistory, effects, stats,
          tasks, unseen, suspended, categories, itemCategory, production>>

\* The collections and fields beside the claim lifecycle proper.
accountVars == <<users, notes, contactHistory, effects>>
statsVars == <<stats, tasks, unseen>>
\* What the admin routes write, and the item field they cascade to.
adminVars == <<suspended, categories, itemCategory, production>>

\* Ids a request may name in its path: the stored ids and one id that does not
\* resolve (all unresolved ids take the same branch).
ItemParams == 1..(IF Len(items) < MaxItems THEN Len(items) + 1 ELSE MaxItems)
ClaimParams == 1..(IF Len(claims) < MaxClaims THEN Len(claims) + 1 ELSE MaxClaims)

\* What is left at the id of a deleted claim.
DeletedClaim == [item |-> 0, claimant |-> NoUser, owner |-> NoUser, status |-> "deleted"]

ItemIds == DOMAIN items
ClaimIds == {k \in DOMAIN claims : claims[k] # DeletedClaim}

\* Claim.countDocuments / Claim.find({ item, status })
ClaimsOf(cl, i, st) == {k \in DOMAIN cl : cl[k].item = i /\ cl[k].status = st}

\* A handler that answers without writing anything.
Reply(r) == resp' = r /\ UNCHANGED <<items, claims, reqs>>

\* Item.stats as the schema defaults it.
NoStats == [totalClaims |-> 0, pendingClaims |-> 0, approvedClaims |-> 0]

\* No email attempted, no notification attempted.
NoEffects == [mail |-> "none", note |-> "none"]

\* Every account registered, no notification, no contact, no recomputation due.
InitStore ==
    /\ users = UserIds
    /\ effects = NoEffects
    /\ notes = [u \in UserIds |-> <<>>]
    /\ contactHistory = [c \in 1..MaxClaims |-> <<>>]
    /\ stats = [i \in 1..MaxItems |-> NoStats]
    /\ tasks = EmptyBag
    /\ unseen = {}
    /\ suspended = {}
    /\ categories = [k \in 1..MaxCats |-> NoName]
    /\ itemCategory = [i \in 1..MaxItems |-> NoName]

\* The store of a deployment in production.
InitSide == InitStore /\ production = TRUE

Init ==
    /\ items = <<>>
    /\ claims = <<>>
    /\ resp = "none"
    /\ reqs = EmptyBag
    /\ InitSide

\* new Item({ ..., type, reportedBy: req.session.user._id }): status defaults to
\* 'available'. No modelled handler reads the type, so it is an input only.
NewItem(u) ==
    [reportedBy |-> u, status |-> "available", claimedBy |-> NoUser]

\* POST /items/report-lost and POST /items/report-found
ReportItem(u, t) ==
    /\ t \in ItemTypes
    /\ Len(items) < MaxItems
    /\ items' = Append(items, NewItem(u))
    /\ resp' = "item_reported"
    /\ UNCHANGED <<claims, reqs>>

\* .populate('reportedBy'), .populate('claimant'): the referenced account, or null
\* when the reference is null or its account is no longer stored
Populated(r) == IF r \in users THEN r ELSE NoUser

\* Claim.findOne({ item, claimant, status: 'pending' })
ExistingUserClaim(cl, i, u) ==
    \E k \in DOMAIN cl :
        cl[k].item = i /\ cl[k].claimant = u /\ cl[k].status = "pending"

\* A faulty claim: the owner recorded is the session user, not the item's reporter.
NewClaim_OwnerIsClaimant(i, u, owner) ==
    [item |-> i, claimant |-> u, owner |-> u, status |-> "pending"]

\* new Claim(claimData): owner is the item's reporter at submission
NewClaim(i, u, owner) ==
    [item |-> i, claimant |-> u, owner |-> owner, status |-> "pending"]

\* A faulty submission: the handler without its "is the user the item owner" test.
SubmitClaim_NoOwnerCheck(u, i, msgOk) ==
    IF ~msgOk THEN Reply("claim_message_required")
    ELSE IF i \notin ItemIds THEN Reply("item_not_found")
    ELSE IF items[i].status # "available" THEN Reply("item_not_available")
    ELSE IF ExistingUserClaim(claims, i, u) THEN Reply("already_claimed")
    ELSE /\ Len(claims) < MaxClaims
         /\ claims' = Append(claims, NewClaim(i, u, Populated(items[i].reportedBy)))
         /\ items' = [items EXCEPT ![i].status = "claim_pending"]
         /\ resp' = "claim_submitted"
         /\ UNCHANGED reqs

\* A faulty submission: the handler without its "is the item available" test.
SubmitClaim_NoStatusCheck(u, i, msgOk) ==
    IF ~msgOk THEN Reply("claim_message_required")
    ELSE IF i \notin ItemIds THEN Reply("item_not_found")
    ELSE IF Populated(items[i].reportedBy) = u THEN Reply("cannot_claim_own_item")
    ELSE IF ExistingUserClaim(claims, i, u) THEN Reply("already_claimed")
    ELSE /\ Len(claims) < MaxClaims
         /\ claims' = Append(claims, NewClaim(i, u, Populated(items[i].reportedBy)))
         /\ items' = [items EXCEPT ![i].status = "claim_pending"]
         /\ resp' = "claim_submitted"
         /\ UNCHANGED reqs

\* POST /items/:id/claim, the whole handler with no other request in between
SubmitClaim(u, i, msgOk) ==
    IF ~msgOk THEN Reply("claim_message_required")
    ELSE IF i \notin ItemIds THEN Reply("item_not_found")
    ELSE IF Populated(items[i].reportedBy) = u THEN Reply("cannot_claim_own_item")
    ELSE IF items[i].status # "available" THEN Reply("item_not_available")
    ELSE IF ExistingUserClaim(claims, i, u) THEN Reply("already_claimed")
    ELSE /\ Len(claims) < MaxClaims
         /\ claims' = Append(claims, NewClaim(i, u, Populated(items[i].reportedBy)))
         /\ items' = [items EXCEPT ![i].status = "claim_pending"]
         /\ resp' = "claim_submitted"
         /\ UNCHANGED reqs

\* A faulty approval: the sibling claims are left as they are.
RejectOtherPending_None(cl, i, c) == cl

\* Claim.updateMany({ item, _id: { $ne: claimId }, status: 'pending' }, { status: 'rejected' })
RejectOtherPending(cl, i, c) ==
    [k \in DOMAIN cl |->
        IF k # c /\ cl[k].item = i /\ cl[k].status = "pending"
        THEN [cl[k] EXCEPT !.status = "rejected"]
        ELSE cl[k]]

\* POST /items/:itemId/claims/:claimId/approve. An item whose reporter was deleted
\* has reportedBy null: item.reportedBy.toString() throws into the handler's catch.
\* A claim whose claimant account is gone is populated with null: the claim is
\* saved and the siblings rejected, then claim.claimant._id throws.
OwnerApprove(u, i, c) ==
    IF i \notin ItemIds \/ c \notin ClaimIds THEN Reply("invalid_action")
    ELSE IF items[i].reportedBy = NoUser THEN Reply("approve_failed")
    ELSE IF items[i].reportedBy # u THEN Reply("invalid_action")
    ELSE IF Populated(claims[c].claimant) = NoUser
    THEN /\ claims' = RejectOtherPending([claims EXCEPT ![c].status = "approved"], i, c)
         /\ resp' = "approve_failed"
         /\ UNCHANGED <<items, reqs>>
    ELSE /\ claims' = RejectOtherPending([claims EXCEPT ![c].status = "approved"], i, c)
         /\ items' = [items EXCEPT ![i].status = "returned",
                                   ![i].claimedBy = claims[c].claimant]
         /\ resp' = "claim_approved"
         /\ UNCHANGED reqs

\* A faulty rejection: the pending claims are counted before the claim is saved.
OwnerReject_StaleCount(u, i, c) ==
    IF i \notin ItemIds \/ c \notin ClaimIds THEN Reply("invalid_action")
    ELSE IF items[i].reportedBy = NoUser THEN Reply("reject_failed")
    ELSE IF items[i].reportedBy # u THEN Reply("invalid_action")
    ELSE LET pendingClaimsCount == Cardinality(ClaimsOf(claims, i, "pending"))
         IN  /\ claims' = [claims EXCEPT ![c].status = "rejected"]
             /\ items' = IF pendingClaimsCount = 0
                         THEN [items EXCEPT ![i].status = "available"]
                         ELSE items
             /\ resp' = "claim_rejected"
             /\ UNCHANGED reqs

\* POST /items/:itemId/claims/:claimId/reject
OwnerReject(u, i, c) ==
    IF i \notin ItemIds \/ c \notin ClaimIds THEN Reply("invalid_action")
    ELSE IF items[i].reportedBy = NoUser THEN Reply("reject_failed")
    ELSE IF items[i].reportedBy # u THEN Reply("invalid_action")
    ELSE LET cl == [claims EXCEPT ![c].status = "rejected"]
             pendingClaimsCount == Cardinality(ClaimsOf(cl, i, "pending"))
         IN  /\ claims' = cl
             /\ items' = IF pendingClaimsCount = 0
                         THEN [items EXCEPT ![i].status = "available"]
                         ELSE items
             /\ resp' = "claim_rejected"
             /\ UNCHANGED reqs

\* A faulty mark returned: the item does not record who received it.
MarkReturned_NoClaimedBy(u, i, c) ==
    IF i \notin ItemIds \/ c \notin ClaimIds THEN Reply("item_or_claim_not_found")
    ELSE IF items[i].reportedBy = NoUser THEN Reply("return_failed")
    ELSE IF items[i].reportedBy # u THEN Reply("not_authorized")
    ELSE IF claims[c].item # i THEN Reply("invalid_claim")
    ELSE IF Populated(claims[c].claimant) = NoUser
    THEN /\ claims' = [claims EXCEPT ![c].status = "approved"]
         /\ resp' = "return_failed"
         /\ UNCHANGED <<items, reqs>>
    ELSE /\ claims' = RejectOtherPending([claims EXCEPT ![c].status = "approved"], i, c)
         /\ items' = [items EXCEPT ![i].status = "returned"]
         /\ resp' = "item_returned"
         /\ UNCHANGED reqs

\* POST /items/:itemId/claims/:claimId/return. With the claimant's account gone the
\* claim is saved, then claim.claimant._id throws before the item is written.
MarkReturned(u, i, c) ==
    IF i \notin ItemIds \/ c \notin ClaimIds THEN Reply("item_or_claim_not_found")
    ELSE IF items[i].reportedBy = NoUser THEN Reply("return_failed")
    ELSE IF items[i].reportedBy # u THEN Reply("not_authorized")
    ELSE IF claims[c].item # i THEN Reply("invalid_claim")
    ELSE IF Populated(claims[c].claimant) = NoUser
    THEN /\ claims' = [claims EXCEPT ![c].status = "approved"]
         /\ resp' = "return_failed"
         /\ UNCHANGED <<items, reqs>>
    ELSE /\ claims' = RejectOtherPending([claims EXCEPT ![c].status = "approved"], i, c)
         /\ items' = [items EXCEPT ![i].status = "returned",
                                   ![i].claimedBy = claims[c].claimant]
         /\ resp' = "item_returned"
         /\ UNCHANGED reqs

\* adminAuth: req.session.user.role === 'admin'
IsAdmin(a) == a \in AdminIds

\* POST /admin/claims/:id/approve
AdminApprove(a, c) ==
    IF ~IsAdmin(a) THEN Reply("admin_required")
    ELSE IF c \notin ClaimIds THEN Reply("claim_not_found")
    ELSE /\ claims' = [claims EXCEPT ![c].status = "approved"]
         /\ items' = [items EXCEPT ![claims[c].item].status = "returned"]
         /\ resp' = "admin_approved"
         /\ UNCHANGED reqs

\* POST /admin/claims/:id/reject
AdminReject(a, c) ==
    IF ~IsAdmin(a) THEN Reply("admin_required")
    ELSE IF c \notin ClaimIds THEN Reply("claim_not_found")
    ELSE /\ claims' = [claims EXCEPT ![c].status = "rejected"]
         /\ items' = [items EXCEPT ![claims[c].item].status = "available"]
         /\ resp' = "admin_rejected"
         /\ UNCHANGED reqs

\* A faulty orphaning: the reference is cleared and the status left as it was.
OrphanItems_KeepsStatus(its, u) ==
    [k \in DOMAIN its |->
        IF its[k].reportedBy = u THEN [its[k] EXCEPT !.reportedBy = NoUser] ELSE its[k]]

\* Item.updateMany({ reportedBy: userId }, { reportedBy: null, status: 'owner_deleted' })
OrphanItems(its, u) ==
    [k \in DOMAIN its |->
        IF its[k].reportedBy = u
        THEN [its[k] EXCEPT !.reportedBy = NoUser, !.status = "owner_deleted"]
        ELSE its[k]]

\* Claim.deleteMany({ claimant: userId })
DeleteClaimsOf(cl, u) ==
    [k \in DOMAIN cl |-> IF cl[k].claimant = u THEN DeletedClaim ELSE cl[k]]

\* DELETE /admin/users/:id. The two bulk writes run before the account is looked
\* up, so they also run for an id whose account is already gone.
DeleteUser(a, u) ==
    IF ~IsAdmin(a) THEN Reply("admin_required") /\ UNCHANGED users
    ELSE IF u = a THEN Reply("cannot_delete_own_account") /\ UNCHANGED users
    ELSE /\ items' = OrphanItems(items, u)
         /\ claims' = DeleteClaimsOf(claims, u)
         /\ users' = users \ {u}
         /\ resp' = IF u \in users THEN "user_deleted" ELSE "user_not_found"
         /\ UNCHANGED reqs

(***************************************************************************)
(* The /claims router (routes/claims.js). Its handlers read the actor from *)
(* req.user; isLoggedIn only tests req.session.user and no middleware of   *)
(* app.js assigns req.user, so req.user is undefined and reading           *)
(* req.user._id throws a TypeError that the handler's catch turns into an  *)
(* error redirect.                                                         *)
(***************************************************************************)
ReqUser(u) == NoUser

\* POST /claims/:itemId/claim
FinderSubmit(u, i) ==
    IF ReqUser(u) = NoUser THEN Reply("error_submitting_claim")
    ELSE IF i \notin ItemIds THEN Reply("item_not_found")
    ELSE IF items[i].reportedBy = ReqUser(u) THEN Reply("cannot_claim_own_item")
    ELSE IF items[i].status # "available" THEN Reply("item_not_available")
    ELSE IF ExistingUserClaim(claims, i, ReqUser(u)) THEN Reply("already_claimed")
    ELSE /\ Len(claims) < MaxClaims
         /\ claims' = Append(claims, NewClaim(i, ReqUser(u), items[i].reportedBy))
         /\ items' = [items EXCEPT ![i].status = "claim_pending"]
         /\ resp' = "claim_submitted"
         /\ UNCHANGED reqs

\* POST /claims/:claimId/approve
FinderApprove(u, c) ==
    IF c \notin ClaimIds THEN Reply("claim_not_found")
    ELSE IF ReqUser(u) = NoUser THEN Reply("error_approving_claim")
    ELSE IF claims[c].owner # ReqUser(u) THEN Reply("not_authorized")
    ELSE /\ claims' = [claims EXCEPT ![c].status = "approved"]
         /\ items' = [items EXCEPT ![claims[c].item].status = "returned"]
         /\ resp' = "finder_approved"
         /\ UNCHANGED reqs

\* POST /claims/:claimId/reject
FinderReject(u, c) ==
    IF c \notin ClaimIds THEN Reply("claim_not_found")
    ELSE IF ReqUser(u) = NoUser THEN Reply("error_rejecting_claim")
    ELSE IF claims[c].owner # ReqUser(u) THEN Reply("not_authorized")
    ELSE LET cl == [claims EXCEPT ![c].status = "rejected"]
             pendingClaims == Cardinality(ClaimsOf(cl, claims[c].item, "pending"))
         IN  /\ claims' = cl
             /\ items' = IF pendingClaims = 0
                         THEN [items EXCEPT ![claims[c].item].status = "available"]
                         ELSE items
             /\ resp' = "finder_rejected"
             /\ UNCHANGED reqs

(***************************************************************************)
(* POST /items/:id/claim as the server runs it: the handler is suspended   *)
(* at each await, and other requests run in between.                       *)
(***************************************************************************)

\* The request moves on to its next await, or ends (pc "done").
Advance(rq, pc) ==
    LET rest == reqs (-) SetToBag({rq})
    IN  IF pc = "done" THEN rest ELSE rest (+) SetToBag({[rq EXCEPT !.pc = pc]})

\* up to the first database answer: Item.findById, then the checks on the item read
SubmitBegin(u, i, msgOk) ==
    /\ BagCardinality(reqs) < MaxReqs
    /\ IF ~msgOk THEN Reply("claim_message_required")
       ELSE IF i \notin ItemIds THEN Reply("item_not_found")
       ELSE IF Populated(items[i].reportedBy) = u THEN Reply("cannot_claim_own_item")
       ELSE IF items[i].status # "available" THEN Reply("item_not_available")
       ELSE /\ reqs' = reqs (+) SetToBag({[pc |-> "findOne", user |-> u, item |-> i,
                                          owner |-> Populated(items[i].reportedBy)]})
            /\ UNCHANGED <<items, claims, resp>>

\* await Claim.findOne(...): the check for the user's own pending claim
SubmitFindOne(rq) ==
    /\ rq.pc = "findOne"
    /\ IF ExistingUserClaim(claims, rq.item, rq.user)
       THEN /\ reqs' = Advance(rq, "done")
            /\ resp' = "already_claimed"
            /\ UNCHANGED <<items, claims>>
       ELSE /\ reqs' = Advance(rq, "save")
            /\ UNCHANGED <<items, claims, resp>>

\* await claim.save(): the insert
SubmitSave(rq) ==
    /\ rq.pc = "save"
    /\ Len(claims) < MaxClaims
    /\ claims' = Append(claims, NewClaim(rq.item, rq.user, rq.owner))
    /\ reqs' = Advance(rq, "itemSave")
    /\ UNCHANGED <<items, resp>>

\* await item.save(): the copy read at the start had status 'available', so the
\* modified path status = 'claim_pending' is written, then the redirect
SubmitItemSave(rq) ==
    /\ rq.pc = "itemSave"
    /\ items' = [items EXCEPT ![rq.item].status = "claim_pending"]
    /\ reqs' = Advance(rq, "done")
    /\ resp' = "claim_submitted"
    /\ UNCHANGED claims

Next ==
    \/ \E u \in UserIds, t \in ItemTypes : ReportItem(u, t)
            /\ UNCHANGED <<accountVars, statsVars, adminVars>>
    \/ \E u \in UserIds, i \in ItemParams, msgOk \in BOOLEAN : SubmitClaim(u, i, msgOk)
            /\ UNCHANGED <<accountVars, statsVars, adminVars>>
    \/ \E u \in UserIds, i \in ItemParams, c \in ClaimParams : OwnerApprove(u, i, c)
            /\ UNCHANGED <<accountVars, statsVars, adminVars>>
    \/ \E u \in UserIds, i \in ItemParams, c \in ClaimParams : OwnerReject(u, i, c)
            /\ UNCHANGED <<accountVars, statsVars, adminVars>>
    \/ \E u \in UserIds, i \in ItemParams, c \in ClaimParams : MarkReturned(u, i, c)
            /\ UNCHANGED <<accountVars, statsVars, adminVars>>
    \/ \E a \in UserIds, c \in ClaimParams : AdminApprove(a, c)
            /\ UNCHANGED <<accountVars, statsVars, adminVars>>
    \/ \E a \in UserIds, c \in ClaimParams : AdminReject(a, c)
            /\ UNCHANGED <<accountVars, statsVars, adminVars>>
    \/ \E u \in UserIds, i \in ItemParams : FinderSubmit(u, i)
            /\ UNCHANGED <<accountVars, statsVars, adminVars>>
    \/ \E u \in UserIds, c \in ClaimParams : FinderApprove(u, c)
            /\ UNCHANGED <<accountVars, statsVars, adminVars>>
    \/ \E u \in UserIds, c \in ClaimParams : FinderReject(u, c)
            /\ UNCHANGED <<accountVars, statsVars, adminVars>>

Spec == Init /\ [][Next]_vars

\* The store after one user has reported one item: the interleaved
\* specification follows the requests made on that item.
InitConc ==
    /\ items \in {<<NewItem(u)>> : u \in UserIds}
    /\ claims = <<>>
    /\ resp = "item_reported"
    /\ reqs = EmptyBag
    /\ InitSide

NextConc ==
    \/ \E u \in UserIds, i \in ItemParams, msgOk \in BOOLEAN : SubmitBegin(u, i, msgOk)
            /\ UNCHANGED <<accountVars, statsVars, adminVars>>
    \/ \E rq \in BagToSet(reqs) : SubmitFindOne(rq)
            /\ UNCHANGED <<accountVars, statsVars, adminVars>>
    \/ \E rq \in BagToSet(reqs) : SubmitSave(rq)
            /\ UNCHANGED <<accountVars, statsVars, adminVars>>
    \/ \E rq \in BagToSet(reqs) : SubmitItemSave(rq)
            /\ UNCHANGED <<accountVars, statsVars, adminVars>>
    \/ \E u \in UserIds, i \in ItemParams, c \in ClaimParams : OwnerApprove(u, i, c)
            /\ UNCHANGED <<accountVars, statsVars, adminVars>>
    \/ \E u \in UserIds, i \in ItemParams, c \in ClaimParams : OwnerReject(u, i, c)
            /\ UNCHANGED <<accountVars, statsVars, adminVars>>
    \/ \E u \in UserIds, i \in ItemParams, c \in ClaimParams : MarkReturned(u, i, c)
            /\ UNCHANGED <<accountVars, statsVars, adminVars>>

SpecConc == InitConc /\ [][NextConc]_vars

(***************************************************************************)
(* Approve and mark returned of the items router, one write at a time. A   *)
(* request in progress holds the documents it read; Interrupt ends it      *)
(* where it stands (the process stops, or a write throws).                 *)
(***************************************************************************)

\* The handler up to its first write: the reads and the ownership test.
DecideBegin(op, u, i, c) ==
    /\ BagCardinality(reqs) < MaxReqs
    /\ IF i \notin ItemIds \/ c \notin ClaimIds
       THEN Reply(IF op = "approve" THEN "invalid_action" ELSE "item_or_claim_not_found")
       ELSE IF items[i].reportedBy = NoUser
       THEN Reply(IF op = "approve" THEN "approve_failed" ELSE "return_failed")
       ELSE IF items[i].reportedBy # u
       THEN Reply(IF op = "approve" THEN "invalid_action" ELSE "not_authorized")
       ELSE IF op = "return" /\ claims[c].item # i THEN Reply("invalid_claim")
       ELSE /\ reqs' = reqs (+) SetToBag({[op |-> op, pc |-> "claimSave", user |-> u,
                                          item |-> i, claim |-> c,
                                          claimant |-> Populated(claims[c].claimant)]})
            /\ UNCHANGED <<items, claims, resp>>

\* await claim.save(): status 'approved'
DecideClaimSave(rq) ==
    /\ rq.pc = "claimSave"
    /\ claims' = [claims EXCEPT ![rq.claim].status = "approved"]
    /\ reqs' = Advance(rq, IF rq.op = "approve" THEN "updateMany" ELSE "itemSave")
    /\ UNCHANGED <<items, resp>>

\* await Claim.updateMany(...): the other pending claims of the item are rejected.
\* It is the second write of approve and the last write of mark returned.
DecideUpdateMany(rq) ==
    /\ rq.pc = "updateMany"
    /\ claims' = RejectOtherPending(claims, rq.item, rq.claim)
    /\ IF rq.op = "approve"
       THEN reqs' = Advance(rq, "itemSave") /\ UNCHANGED resp
       ELSE reqs' = Advance(rq, "done") /\ resp' = "item_returned"
    /\ UNCHANGED items

\* item.claimedBy = claim.claimant._id, which throws for a claimant whose account
\* is gone, then await item.save(): status 'returned'. It is the last write of
\* approve and the second write of mark returned.
DecideItemSave(rq) ==
    /\ rq.pc = "itemSave"
    /\ IF rq.claimant = NoUser
       THEN /\ reqs' = Advance(rq, "done")
            /\ resp' = IF rq.op = "approve" THEN "approve_failed" ELSE "return_failed"
            /\ UNCHANGED items
       ELSE /\ items' = [items EXCEPT ![rq.item].status = "returned",
                                      ![rq.item].claimedBy = rq.claimant]
            /\ IF rq.op = "approve"
               THEN reqs' = Advance(rq, "done") /\ resp' = "claim_approved"
               ELSE reqs' = Advance(rq, "updateMany") /\ UNCHANGED resp
    /\ UNCHANGED claims

\* The request ends between two of its writes.
Interrupt(rq) ==
    /\ reqs' = reqs (-) SetToBag({rq})
    /\ UNCHANGED <<items, claims, resp>>

\* An item of u1 with two pending claims, as two interleaved submissions leave it.
InitSteps ==
    /\ items = <<[NewItem("u1") EXCEPT !.status = "claim_pending"]>>
    /\ claims \in {<<NewClaim(1, u, "u1"), NewClaim(1, v, "u1")>> :
                      u \in UserIds \ {"u1"}, v \in UserIds \ {"u1"}}
    /\ resp = "claim_submitted"
    /\ reqs = EmptyBag
    /\ InitSide

NextSteps ==
    \/ \E op \in {"approve", "return"}, u \in UserIds, i \in ItemParams, c \in ClaimParams :
            /\ DecideBegin(op, u, i, c)
            /\ UNCHANGED <<accountVars, statsVars, adminVars>>
    \/ \E rq \in BagToSet(reqs) : DecideClaimSave(rq)
            /\ UNCHANGED <<accountVars, statsVars, adminVars>>
    \/ \E rq \in BagToSet(reqs) : DecideUpdateMany(rq)
            /\ UNCHANGED <<accountVars, statsVars, adminVars>>
    \/ \E rq \in BagToSet(reqs) : DecideItemSave(rq)
            /\ UNCHANGED <<accountVars, statsVars, adminVars>>
    \/ \E rq \in BagToSet(reqs) : Interrupt(rq)
            /\ UNCHANGED <<accountVars, statsVars, adminVars>>

SpecSteps == InitSteps /\ [][NextSteps]_vars

\* The requests that need no admin session.
NextNonAdmin ==
    \/ \E u \in UserIds, t \in ItemTypes : ReportItem(u, t)
            /\ UNCHANGED <<accountVars, statsVars, adminVars>>
    \/ \E u \in UserIds, i \in ItemParams, msgOk \in BOOLEAN : SubmitClaim(u, i, msgOk)
            /\ UNCHANGED <<accountVars, statsVars, adminVars>>
    \/ \E u \in UserIds, i \in ItemParams, c \in ClaimParams : OwnerApprove(u, i, c)
            /\ UNCHANGED <<accountVars, statsVars, adminVars>>
    \/ \E u \in UserIds, i \in ItemParams, c \in ClaimParams : OwnerReject(u, i, c)
            /\ UNCHANGED <<accountVars, statsVars, adminVars>>
    \/ \E u \in UserIds, i \in ItemParams, c \in ClaimParams : MarkReturned(u, i, c)
            /\ UNCHANGED <<accountVars, statsVars, adminVars>>

SpecNonAdmin == Init /\ [][NextNonAdmin]_vars

\* Reports, submissions, the owner's approve, and the admin's deletion of accounts:
\* the requests that bring an item into each of its four statuses.
NextUsers ==
    \/ \E u \in UserIds, t \in ItemTypes : ReportItem(u, t)
            /\ UNCHANGED <<accountVars, statsVars, adminVars>>
    \/ \E u \in UserIds, i \in ItemParams, msgOk \in BOOLEAN : SubmitClaim(u, i, msgOk)
            /\ UNCHANGED <<accountVars, statsVars, adminVars>>
    \/ \E u \in UserIds, i \in ItemParams, c \in ClaimParams : OwnerApprove(u, i, c)
            /\ UNCHANGED <<accountVars, statsVars, adminVars>>
    \/ \E u \in UserIds, i \in ItemParams : FinderSubmit(u, i)
            /\ UNCHANGED <<accountVars, statsVars, adminVars>>
    \/ \E a \in UserIds, u \in UserIds : DeleteUser(a, u)
            /\ UNCHANGED <<notes, contactHistory, effects, statsVars, adminVars>>

SpecUsers == Init /\ [][NextUsers]_vars

(***************************************************************************)
(* Suspension. No route sets isBanned, and no route or middleware calls    *)
(* canPerformAction or reads isSuspended before acting.                    *)
(***************************************************************************)

\* A reply of an admin route that writes nothing.
AdminReply(r) == resp' = r /\ UNCHANGED <<items, claims, reqs, users, suspended>>

\* A faulty suspension: no test of the target against the session user.
Suspend_NoSelfCheck(a, u) ==
    IF ~IsAdmin(a) THEN AdminReply("admin_required")
    ELSE IF u \notin users THEN AdminReply("user_not_found")
    ELSE /\ suspended' = suspended \cup {u}
         /\ resp' = "user_suspended"
         /\ UNCHANGED <<items, claims, reqs, users>>

\* POST /admin/users/:id/suspend
Suspend(a, u) ==
    IF ~IsAdmin(a) THEN AdminReply("admin_required")
    ELSE IF u = a THEN AdminReply("cannot_suspend_own_account")
    ELSE IF u \notin users THEN AdminReply("user_not_found")
    ELSE /\ suspended' = suspended \cup {u}
         /\ resp' = "user_suspended"
         /\ UNCHANGED <<items, claims, reqs, users>>

\* POST /admin/users/:id/unsuspend
Unsuspend(a, u) ==
    IF ~IsAdmin(a) THEN AdminReply("admin_required")
    ELSE IF u \notin users THEN AdminReply("user_not_found")
    ELSE /\ suspended' = suspended \ {u}
         /\ resp' = "user_unsuspended"
         /\ UNCHANGED <<items, claims, reqs, users>>

\* DELETE /admin/users/:id on the accounts with their flags: the deleted record
\* takes its isSuspended with it.
DeleteAccount(a, u) ==
    /\ DeleteUser(a, u)
    /\ suspended' = suspended \ (users \ users')

\* The frame of a request of the items router among the admin's requests.
ItemsRouterFrame ==
    UNCHANGED <<accountVars, statsVars, suspended, categories, itemCategory, production>>

\* Reports, submissions and the owner's approve by accounts that the admin
\* suspends, unsuspends and deletes.
NextAdmin ==
    \/ \E u \in UserIds, t \in ItemTypes : ReportItem(u, t) /\ ItemsRouterFrame
    \/ \E u \in UserIds, i \in ItemIds : SubmitClaim(u, i, TRUE) /\ ItemsRouterFrame
    \/ \E u \in UserIds, i \in ItemIds, c \in ClaimIds :
            OwnerApprove(u, i, c) /\ ItemsRouterFrame
    \/ \E a \in UserIds, u \in UserIds :
            /\ Suspend(a, u)
            /\ UNCHANGED <<notes, contactHistory, effects, statsVars, categories,
                           itemCategory, production>>
    \/ \E a \in UserIds, u \in UserIds :
            /\ Unsuspend(a, u)
            /\ UNCHANGED <<notes, contactHistory, effects, statsVars, categories,
                           itemCategory, production>>
    \/ \E a \in UserIds, u \in UserIds :
            /\ DeleteAccount(a, u)
            /\ UNCHANGED <<notes, contactHistory, effects, statsVars, categories,
                           itemCategory, production>>

SpecAdmin == Init /\ [][NextAdmin]_vars

(***************************************************************************)
(* Categories. An item names its category by the category's name, not by   *)
(* its id, and a report takes the name from the form as it comes.          *)
(***************************************************************************)

CatIds == 1..MaxCats

\* Category.findOne({ name }) / Category.findOne({ _id: { $ne: id }, name })
CategoriesNamed(n, except) == {k \in CatIds \ except : categories[k] = n}

\* Item.countDocuments({ category: name })
ItemsIn(n) == {i \in ItemIds : itemCategory[i] = n}

\* A reply of a category route that writes nothing.
CategoryReply(r) == resp' = r /\ UNCHANGED <<categories, itemCategory>>

\* POST /items/report-lost and POST /items/report-found with the category field
ReportItemIn(u, t, n) ==
    /\ ReportItem(u, t)
    /\ itemCategory' = [itemCategory EXCEPT ![Len(items) + 1] = n]
    /\ UNCHANGED categories

\* POST /admin/categories
AddCategory(a, n) ==
    IF ~IsAdmin(a) THEN CategoryReply("admin_required")
    ELSE IF CategoriesNamed(n, {}) # {} THEN CategoryReply("category_exists")
    ELSE /\ \E k \in CatIds : categories[k] = NoName
         /\ categories' = [categories EXCEPT
                              ![CHOOSE k \in CatIds : categories[k] = NoName] = n]
         /\ resp' = "category_added"
         /\ UNCHANGED itemCategory

\* A faulty rename: the category is saved and the items are left as they are.
RenameCategory_NoCascade(a, k, n) ==
    IF ~IsAdmin(a) THEN CategoryReply("admin_required")
    ELSE IF categories[k] = NoName THEN CategoryReply("category_not_found")
    ELSE IF CategoriesNamed(n, {k}) # {} THEN CategoryReply("category_name_exists")
    ELSE /\ categories' = [categories EXCEPT ![k] = n]
         /\ resp' = "category_updated"
         /\ UNCHANGED itemCategory

\* PUT /admin/categories/:id: category.save(), then Item.updateMany({ category:
\* oldName }, { category: newName }) when the name changed
RenameCategory(a, k, n) ==
    IF ~IsAdmin(a) THEN CategoryReply("admin_required")
    ELSE IF categories[k] = NoName THEN CategoryReply("category_not_found")
    ELSE IF CategoriesNamed(n, {k}) # {} THEN CategoryReply("category_name_exists")
    ELSE /\ categories' = [categories EXCEPT ![k] = n]
         /\ itemCategory' =
                IF categories[k] # n
                THEN [i \in DOMAIN itemCategory |->
                        IF i \in ItemsIn(categories[k]) THEN n ELSE itemCategory[i]]
                ELSE itemCategory
         /\ resp' = "category_updated"

\* DELETE /admin/categories/:id
DeleteCategory(a, k) ==
    IF ~IsAdmin(a) THEN CategoryReply("admin_required")
    ELSE IF categories[k] = NoName THEN CategoryReply("category_not_found")
    ELSE IF ItemsIn(categories[k]) # {} THEN CategoryReply("category_has_items")
    ELSE /\ categories' = [categories EXCEPT ![k] = NoName]
         /\ resp' = "category_deleted"
         /\ UNCHANGED itemCategory

\* DELETE /admin/categories/nuke/all
NukeCategories(a) ==
    IF ~IsAdmin(a) THEN CategoryReply("admin_required")
    ELSE IF production THEN CategoryReply("not_allowed_in_production")
    ELSE /\ categories' = [k \in CatIds |-> NoName]
         /\ resp' = "categories_deleted"
         /\ UNCHANGED itemCategory

\* The frame of a category route.
CategoryFrame ==
    UNCHANGED <<items, claims, reqs, accountVars, statsVars, suspended, production>>

\* The store before the first request, in either environment.
InitCatalog ==
    /\ items = <<>>
    /\ claims = <<>>
    /\ resp = "none"
    /\ reqs = EmptyBag
    /\ InitStore
    /\ production \in BOOLEAN

\* Item reports and the admin's category requests.
NextCatalog ==
    \/ \E u \in UserIds, t \in ItemTypes, n \in ReportedNames :
            /\ ReportItemIn(u, t, n)
            /\ UNCHANGED <<accountVars, statsVars, suspended, production>>
    \/ \E a \in UserIds, n \in Names : AddCategory(a, n) /\ CategoryFrame
    \/ \E a \in UserIds, k \in CatIds, n \in Names : RenameCategory(a, k, n) /\ CategoryFrame
    \/ \E a \in UserIds, k \in CatIds : DeleteCategory(a, k) /\ CategoryFrame
    \/ \E a \in UserIds : NukeCategories(a) /\ CategoryFrame

SpecCatalog == InitCatalog /\ [][NextCatalog]_vars

(***************************************************************************)
(* The notification list of an account.                                    *)
(***************************************************************************)

\* The entry a call creates: isRead false, createdAt now. The creation times of an
\* account's entries are numbered in the order of the calls.
NewNotification(list) ==
    [id |-> IF list = <<>> THEN 1 ELSE Head(list).id + 1, isRead |-> FALSE]

\* A faulty trim: the entry behind the new one is dropped, the oldest kept.
AddNotification_EvictsNewest(list) ==
    LET l == <<NewNotification(list)>> \o list
    IN  IF Len(l) > NotificationCap THEN <<Head(l)>> \o SubSeq(l, 3, Len(l)) ELSE l

\* userSchema.methods.addNotification: unshift, then slice(0, 50)
AddNotification(list) ==
    LET l == <<NewNotification(list)>> \o list
    IN  IF Len(l) > NotificationCap THEN SubSeq(l, 1, NotificationCap) ELSE l

\* user.addNotification({ ... }) followed by its save(), for a stored account
Notify(u) ==
    /\ u \in users
    /\ NewNotification(notes[u]).id <= NotificationCap + MaxAdds
    /\ notes' = [notes EXCEPT ![u] = AddNotification(notes[u])]
    /\ UNCHANGED <<items, claims, resp, reqs, users, contactHistory, effects, statsVars,
                   adminVars>>

NextNotes == \E u \in UserIds : Notify(u)

SpecNotes == Init /\ [][NextNotes]_vars

(***************************************************************************)
(* The notification routes. Each acts on the account of the session user,  *)
(* req.session.user._id; a session outlives its account.                   *)
(***************************************************************************)

\* The ids a request can name: those of the entries a list can hold and one more.
NotificationIds == 1..(MaxNotes + 1)

\* $set: { 'notifications.$[].isRead': true }
ReadAll(list) == [n \in DOMAIN list |-> [list[n] EXCEPT !.isRead = TRUE]]

\* A faulty mark: every entry of the list is set read, whatever the id.
ReadOne_WholeList(list, id) == [n \in DOMAIN list |-> [list[n] EXCEPT !.isRead = TRUE]]

\* user.notifications.id(notificationId), and isRead = true on the entry found
ReadOne(list, id) ==
    [n \in DOMAIN list |->
        IF list[n].id = id THEN [list[n] EXCEPT !.isRead = TRUE] ELSE list[n]]

\* What no notification route writes.
NotificationFrame ==
    UNCHANGED <<items, claims, reqs, users, contactHistory, effects, statsVars, adminVars>>

\* PUT /notifications/read: findByIdAndUpdate of an account that is gone matches
\* nothing, and the reply is the same.
MarkAllRead(u) ==
    /\ notes' = IF u \in users THEN [notes EXCEPT ![u] = ReadAll(notes[u])] ELSE notes
    /\ resp' = "all_marked_read"
    /\ NotificationFrame

\* PUT /notifications/:notificationId/read: findById of an account that is gone is
\* null, the read of its list throws and the catch replies 500.
MarkOneRead(u, id) ==
    /\ IF u \notin users
       THEN resp' = "mark_failed" /\ UNCHANGED notes
       ELSE /\ notes' = [notes EXCEPT ![u] = ReadOne(notes[u], id)]
            /\ resp' = "marked_read"
    /\ NotificationFrame

\* DELETE /notifications
ClearAll(u) ==
    /\ notes' = IF u \in users THEN [notes EXCEPT ![u] = <<>>] ELSE notes
    /\ resp' = "all_cleared"
    /\ NotificationFrame

\* Notifications arriving at lists of at most MaxNotes entries, and the routes.
NextInbox ==
    \/ \E u \in UserIds : Len(notes[u]) < MaxNotes /\ Notify(u)
    \/ \E u \in UserIds : MarkAllRead(u)
    \/ \E u \in UserIds, id \in NotificationIds : MarkOneRead(u, id)
    \/ \E u \in UserIds : ClearAll(u)

SpecInbox == Init /\ [][NextInbox]_vars

(***************************************************************************)
(* The cached claim counts of an item. The post hooks of the Claim and     *)
(* Item schemas start a 100 ms timer whose callback reads the item's       *)
(* claims and then, in a later database call, writes the counts. Only      *)
(* save, findOneAndUpdate and findOneAndDelete have hooks: updateMany and  *)
(* deleteMany start no timer.                                              *)
(***************************************************************************)

\* Claim.find({ item: itemId }): the documents found, by id and status
FindClaims(cl, i) ==
    {[id |-> k, status |-> cl[k].status] : k \in {j \in DOMAIN cl : cl[j].item = i}}

\* A faulty count: every resolved claim is counted as approved.
StatsOf_ResolvedAsApproved(docs) ==
    [totalClaims |-> Cardinality(docs),
     pendingClaims |-> Cardinality({d \in docs : d.status = "pending"}),
     approvedClaims |-> Cardinality({d \in docs : d.status # "pending"})]

\* stats = { totalClaims: claims.length, pendingClaims: claims.filter(...).length, ... }
StatsOf(docs) ==
    [totalClaims |-> Cardinality(docs),
     pendingClaims |-> Cardinality({d \in docs : d.status = "pending"}),
     approvedClaims |-> Cardinality({d \in docs : d.status = "approved"})]

\* setTimeout(async () => { ... }, 100) of a post hook, for the item of the document
Timer(i) == [item |-> i, pc |-> "timer", found |-> {}]

\* The items whose claim documents a step has created, changed or deleted.
Touched == {i \in 1..MaxItems : FindClaims(claims', i) # FindClaims(claims, i)}

\* The post hooks that a handler's save() calls fire, one timer for the item of
\* each document saved, in the step that runs the handler.
Hooks(saved) ==
    /\ BagCardinality(tasks) + Len(saved) <= MaxTasks
    /\ tasks' = tasks (+) [t \in {Timer(saved[n]) : n \in DOMAIN saved} |->
                            Cardinality({n \in DOMAIN saved : Timer(saved[n]) = t})]
    /\ unseen' = unseen \cup Touched
    /\ UNCHANGED stats

\* The timer fires: const claims = await Claim.find({ item: itemId })
StatsRead(t) ==
    /\ t.pc = "timer"
    /\ tasks' = (tasks (-) SetToBag({t}))
                    (+) SetToBag({[t EXCEPT !.pc = "write",
                                            !.found = FindClaims(claims, t.item)]})
    /\ unseen' = unseen \ {t.item}
    /\ UNCHANGED <<items, claims, resp, reqs, accountVars, adminVars, stats>>

\* await this.findByIdAndUpdate(itemId, { stats, recentClaim })
StatsWrite(t) ==
    /\ t.pc = "write"
    /\ stats' = [stats EXCEPT ![t.item] = StatsOf(t.found)]
    /\ tasks' = tasks (-) SetToBag({t})
    /\ UNCHANGED <<items, claims, resp, reqs, accountVars, adminVars, unseen>>

\* POST /items/:id/claim with its hooks: claim.save() and item.save()
SubmitClaimHooks(u, i, msgOk) ==
    /\ SubmitClaim(u, i, msgOk)
    /\ Hooks(IF resp' = "claim_submitted" THEN <<i, i>> ELSE <<>>)

\* POST /items/:itemId/claims/:claimId/approve with its hooks: claim.save(),
\* Claim.updateMany (no hook), item.save(); claim.save() alone when the handler
\* throws at claim.claimant._id
OwnerApproveHooks(u, i, c) ==
    /\ OwnerApprove(u, i, c)
    /\ Hooks(IF resp' = "claim_approved" THEN <<claims[c].item, i>>
             ELSE IF resp' = "approve_failed" /\ items[i].reportedBy # NoUser
             THEN <<claims[c].item>>
             ELSE <<>>)

\* POST /items/:itemId/claims/:claimId/reject with its hooks: claim.save(), and
\* item.save() when no pending claim is left
OwnerRejectHooks(u, i, c) ==
    /\ OwnerReject(u, i, c)
    /\ Hooks(IF resp' # "claim_rejected" THEN <<>>
             ELSE IF ClaimsOf(claims', i, "pending") = {} THEN <<claims[c].item, i>>
             ELSE <<claims[c].item>>)

\* POST /items/:itemId/claims/:claimId/return with its hooks: claim.save(),
\* item.save(), Claim.updateMany (no hook); claim.save() alone when the handler
\* throws at claim.claimant._id
MarkReturnedHooks(u, i, c) ==
    /\ MarkReturned(u, i, c)
    /\ Hooks(IF resp' = "item_returned" THEN <<claims[c].item, i>>
             ELSE IF resp' = "return_failed" /\ items[i].reportedBy # NoUser
             THEN <<claims[c].item>>
             ELSE <<>>)

\* DELETE /admin/users/:id: Item.updateMany, Claim.deleteMany and
\* User.findByIdAndDelete fire no hook of the Claim or Item schema
DeleteUserHooks(a, u) ==
    /\ DeleteUser(a, u)
    /\ Hooks(<<>>)

\* The store after u1 has reported one item and its own recomputation has run.
InitStats ==
    /\ items = <<NewItem("u1")>>
    /\ claims = <<>>
    /\ resp = "item_reported"
    /\ reqs = EmptyBag
    /\ InitSide

\* The requests on stored items and claims, and the callbacks of the timers.
NextStats ==
    \/ \E u \in UserIds, i \in ItemIds : SubmitClaimHooks(u, i, TRUE)
            /\ UNCHANGED <<accountVars, adminVars>>
    \/ \E u \in UserIds, i \in ItemIds, c \in ClaimIds : OwnerApproveHooks(u, i, c)
            /\ UNCHANGED <<accountVars, adminVars>>
    \/ \E u \in UserIds, i \in ItemIds, c \in ClaimIds : OwnerRejectHooks(u, i, c)
            /\ UNCHANGED <<accountVars, adminVars>>
    \/ \E u \in UserIds, i \in ItemIds, c \in ClaimIds : MarkReturnedHooks(u, i, c)
            /\ UNCHANGED <<accountVars, adminVars>>
    \/ \E a \in UserIds, u \in UserIds : DeleteUserHooks(a, u)
            /\ UNCHANGED <<notes, contactHistory, effects, adminVars>>
    \/ \E t \in BagToSet(tasks) : StatsRead(t)
    \/ \E t \in BagToSet(tasks) : StatsWrite(t)

SpecStats == InitStats /\ [][NextStats]_vars

\* ---------------------------------------------------------------------------
\* Emails and notifications of the claim handlers
\* ---------------------------------------------------------------------------

\* What an email attempt did; ok is the outcome of the transport (sendMail resolved
\* or something in the send threw).
MailOutcome(ok) == IF ok THEN "sent" ELSE "failed"

\* sendClaimContactEmail: every error of the send is caught inside, the call
\* returns the boolean true when sendMail resolved and the boolean false otherwise.
SendClaimContactEmail(ok) == [type |-> "boolean", value |-> ok]

\* emailResult.success: the property of an object, undefined on a boolean.
Success(v) == IF v.type = "object" THEN v.success ELSE "undefined"

\* The Boolean emailSent of a pushed contactHistory entry: undefined takes the
\* schema default false.
EmailSentField(x) == x = "true"

\* if (emailResult.success)
Truthy(x) == x = "true"

\* The notification block of a handler, inside its own try/catch: User.findById(v)
\* and, for a stored account, addNotification with its save(), which succeeds
\* (noteOk) or throws into the catch. mail is what the email before it did.
SideEffects(mail, v, noteOk) ==
    /\ effects' = [mail |-> mail,
                   note |-> IF v \notin users THEN "none"
                            ELSE IF noteOk THEN "added" ELSE "failed"]
    /\ IF v \in users /\ noteOk
       THEN /\ Len(notes[v]) < MaxNotes
            /\ notes' = [notes EXCEPT ![v] = AddNotification(notes[v])]
       ELSE UNCHANGED notes

\* A request that reaches neither the email nor the notification block.
NoSideEffects == effects' = NoEffects /\ UNCHANGED notes

\* POST /items/:id/claim with the owner's email and notification
SubmitClaimNotify(u, i, msgOk, mailOk, noteOk) ==
    /\ SubmitClaim(u, i, msgOk)
    /\ IF resp' = "claim_submitted" /\ Populated(items[i].reportedBy) # NoUser
       THEN SideEffects(MailOutcome(mailOk), items[i].reportedBy, noteOk)
       ELSE NoSideEffects

\* POST /items/:itemId/claims/:claimId/approve with the claimant's notification
OwnerApproveNotify(u, i, c, noteOk) ==
    /\ OwnerApprove(u, i, c)
    /\ IF resp' = "claim_approved"
       THEN SideEffects("none", claims[c].claimant, noteOk)
       ELSE NoSideEffects

\* A faulty rejection: the notification outside any try/catch, so that its failure
\* reaches the handler's catch after the claim was saved and before the item is.
OwnerRejectNotify_Uncaught(u, i, c, noteOk) ==
    \/ /\ OwnerReject(u, i, c)
       /\ noteOk \/ resp' # "claim_rejected" \/ claims[c].claimant \notin users
       /\ IF resp' = "claim_rejected"
          THEN SideEffects("none", Populated(claims[c].claimant), noteOk)
          ELSE NoSideEffects
    \/ /\ ~noteOk
       /\ i \in ItemIds /\ c \in ClaimIds
       /\ items[i].reportedBy = u
       /\ claims[c].claimant \in users
       /\ claims' = [claims EXCEPT ![c].status = "rejected"]
       /\ resp' = "reject_failed"
       /\ effects' = [mail |-> "none", note |-> "failed"]
       /\ UNCHANGED <<items, reqs, notes>>

\* POST /items/:itemId/claims/:claimId/reject with the claimant's notification
OwnerRejectNotify(u, i, c, noteOk) ==
    /\ OwnerReject(u, i, c)
    /\ IF resp' = "claim_rejected"
       THEN SideEffects("none", Populated(claims[c].claimant), noteOk)
       ELSE NoSideEffects

\* POST /items/:itemId/claims/:claimId/return with the claimant's notification
MarkReturnedNotify(u, i, c, noteOk) ==
    /\ MarkReturned(u, i, c)
    /\ IF resp' = "item_returned"
       THEN SideEffects("none", claims[c].claimant, noteOk)
       ELSE NoSideEffects

\* An early return or the catch of the contact handler: nothing is written.
ContactFailed(r) ==
    /\ Reply(r)
    /\ NoSideEffects
    /\ UNCHANGED contactHistory

\* POST /items/:itemId/claims/:claimId/contact. item.reportedBy.toString() on a
\* null reporter and claim.claimant._id on a claimant whose account is gone throw
\* into the handler's catch.
ContactClaimant(u, i, c, msgOk, mailOk, noteOk) ==
    IF ~msgOk THEN ContactFailed("message_required")
    ELSE IF i \notin ItemIds \/ c \notin ClaimIds THEN ContactFailed("item_or_claim_not_found")
    ELSE IF items[i].reportedBy = NoUser THEN ContactFailed("contact_failed")
    ELSE IF items[i].reportedBy # u THEN ContactFailed("not_authorized")
    ELSE IF claims[c].item # i THEN ContactFailed("invalid_claim")
    ELSE IF Populated(claims[c].claimant) = NoUser THEN ContactFailed("contact_failed")
    ELSE LET emailResult == SendClaimContactEmail(mailOk)
         IN  /\ Len(contactHistory[c]) < MaxContacts
             /\ contactHistory' =
                    [contactHistory EXCEPT ![c] =
                        Append(@, [sentBy |-> u,
                                   emailSent |-> EmailSentField(Success(emailResult))])]
             /\ SideEffects(MailOutcome(mailOk), claims[c].claimant, noteOk)
             /\ resp' = IF Truthy(Success(emailResult))
                        THEN "message_sent" ELSE "contact_recorded_email_failed"
             /\ UNCHANGED <<items, claims, reqs>>

\* The claim handlers of the items router with their emails and notifications, from
\* the store that holds one reported item.
NextMail ==
    \/ \E u \in UserIds, i \in ItemIds, mailOk \in BOOLEAN, noteOk \in BOOLEAN :
            /\ SubmitClaimNotify(u, i, TRUE, mailOk, noteOk)
            /\ UNCHANGED <<users, contactHistory, statsVars, adminVars>>
    \/ \E u \in UserIds, i \in ItemIds, c \in ClaimIds, noteOk \in BOOLEAN :
            /\ OwnerApproveNotify(u, i, c, noteOk)
            /\ UNCHANGED <<users, contactHistory, statsVars, adminVars>>
    \/ \E u \in UserIds, i \in ItemIds, c \in ClaimIds, noteOk \in BOOLEAN :
            /\ OwnerRejectNotify(u, i, c, noteOk)
            /\ UNCHANGED <<users, contactHistory, statsVars, adminVars>>
    \/ \E u \in UserIds, i \in ItemIds, c \in ClaimIds, noteOk \in BOOLEAN :
            /\ MarkReturnedNotify(u, i, c, noteOk)
            /\ UNCHANGED <<users, contactHistory, statsVars, adminVars>>
    \/ \E u \in UserIds, i \in ItemIds, c \in ClaimIds, msgOk \in BOOLEAN,
          mailOk \in BOOLEAN, noteOk \in BOOLEAN :
            /\ ContactClaimant(u, i, c, msgOk, mailOk, noteOk)
            /\ UNCHANGED <<users, statsVars, adminVars>>

SpecMail == InitStats /\ [][NextMail]_vars

(***************************************************************************)
(* Properties of the claim lifecycle.                                      *)
(***************************************************************************)

Resolved == {"approved", "rejected"}

\* C1: every Item has at most one Claim whose status is approved.
C1_AtMostOneApproved ==
    \A i \in ItemIds : Cardinality(ClaimsOf(claims, i, "approved")) <= 1

\* What the spec's approve does to the claim's item and its sibling claims.
ApproveEffect(c) ==
    LET i == claims[c].item IN
    /\ claims'[c].status = "approved"
    /\ \A k \in ClaimIds \ {c} :
          (claims[k].item = i /\ claims[k].status = "pending")
              => claims'[k].status = "rejected"
    /\ items'[i].status = "returned"
    /\ items'[i].claimedBy = claims[c].claimant

\* C2: when the reporter of item i approves a pending claim c on i, then c is
\* approved, every other claim on i that was pending is rejected, and i is
\* returned with claimedBy set to c's claimant.
C2_OwnerApproveEffect ==
    [][resp' = "claim_approved" => \A u \in UserIds, i \in ItemParams, c \in ClaimParams :
          (/\ i \in ItemIds /\ c \in ClaimIds
           /\ items[i].reportedBy = u
           /\ claims[c].item = i
           /\ claims[c].status = "pending"
           /\ OwnerApprove(u, i, c))
          => ApproveEffect(c)]_vars

\* C2 witness: an approval has answered, leaving an item returned to the approved
\* claim's claimant with a sibling claim on it rejected.
C2_Witness ==
    /\ resp = "claim_approved"
    /\ \E c \in ClaimIds, k \in ClaimIds :
          /\ c # k
          /\ claims[k].item = claims[c].item
          /\ claims[c].status = "approved"
          /\ claims[k].status = "rejected"
          /\ claims[k].claimant # claims[c].claimant
          /\ items[claims[c].item].status = "returned"
          /\ items[claims[c].item].claimedBy = claims[c].claimant

\* C3: admin approve and finder approve of a pending claim have the effect of the
\* owner approve (siblings rejected, item returned, claimedBy set).
C3_ApproveEquivalence ==
    [][\A a \in UserIds, c \in ClaimParams :
          (/\ c \in ClaimIds
           /\ claims[c].status = "pending"
           /\ \/ IsAdmin(a) /\ AdminApprove(a, c)
              \/ claims[c].owner = a /\ FinderApprove(a, c))
          => ApproveEffect(c)]_vars

\* C4: when the reporter rejects the last pending claim on an item that has no
\* approved claim, the claim is rejected and the item is available.
C4_RejectLastPending ==
    [][resp' = "claim_rejected" => \A u \in UserIds, i \in ItemParams, c \in ClaimParams :
          (/\ i \in ItemIds /\ c \in ClaimIds
           /\ items[i].reportedBy = u
           /\ ClaimsOf(claims, i, "pending") = {c}
           /\ ClaimsOf(claims, i, "approved") = {}
           /\ OwnerReject(u, i, c))
          => (claims'[c].status = "rejected" /\ items'[i].status = "available")]_vars

\* C4 witness: an owner rejection has answered and left an item available whose
\* claims are all rejected.
C4_Witness ==
    /\ resp = "claim_rejected"
    /\ \E i \in ItemIds :
          /\ items[i].status = "available"
          /\ ClaimsOf(claims, i, "rejected") # {}
          /\ ClaimsOf(claims, i, "pending") = {}
          /\ ClaimsOf(claims, i, "approved") = {}

\* C5: a rejection, by any entry point, leaves the item's status unchanged when
\* another claim on the item is still pending after it.
C5_RejectKeepsStatus ==
    [][\A a \in UserIds, c \in ClaimParams :
          c \in ClaimIds =>
            LET j == claims[c].item IN
            (\/ IsAdmin(a) /\ AdminReject(a, c)
             \/ items[j].reportedBy = a /\ OwnerReject(a, j, c)
             \/ claims[c].owner = a /\ FinderReject(a, c))
            => (ClaimsOf(claims', j, "pending") # {}
                  => items'[j].status = items[j].status)]_vars

\* C6: no user holds two pending claims on the same item.
C6_NoDoublePending ==
    \A c \in ClaimIds, k \in ClaimIds :
        (c # k /\ claims[c].item = claims[k].item
               /\ claims[c].claimant = claims[k].claimant)
            => ~(claims[c].status = "pending" /\ claims[k].status = "pending")

C8_ResolvedIsFinal ==
    [][/\ \A c \in ClaimIds :
            claims[c].status \in Resolved => claims'[c].status = claims[c].status
       /\ \A a \in UserIds, i \in ItemParams, c \in ClaimParams :
            (/\ c \in ClaimIds
             /\ claims[c].status \in Resolved
             /\ \/ OwnerApprove(a, i, c) \/ OwnerReject(a, i, c)
                \/ AdminApprove(a, c) \/ AdminReject(a, c)
                \/ FinderApprove(a, c) \/ FinderReject(a, c))
            => UNCHANGED <<claims, items>>]_vars

\* C9: without admin requests an item's status moves only along
\* available -> claim_pending, claim_pending -> returned, claim_pending -> available.
AllowedStatusMoves ==
    {<<"available", "claim_pending">>,
     <<"claim_pending", "returned">>,
     <<"claim_pending", "available">>}

C9_StatusMoves ==
    [][\A i \in ItemIds :
          items'[i].status # items[i].status
              => <<items[i].status, items'[i].status>> \in AllowedStatusMoves]_vars

\* A request by actor a that resolves claims.
ResolvingRequestBy(a) ==
    \/ \E i \in ItemParams, c \in ClaimParams : OwnerApprove(a, i, c)
    \/ \E i \in ItemParams, c \in ClaimParams : OwnerReject(a, i, c)
    \/ \E i \in ItemParams, c \in ClaimParams : MarkReturned(a, i, c)
    \/ \E c \in ClaimParams : AdminApprove(a, c)
    \/ \E c \in ClaimParams : AdminReject(a, c)
    \/ \E c \in ClaimParams : FinderApprove(a, c)
    \/ \E c \in ClaimParams : FinderReject(a, c)

\* C10: a claim becomes approved or rejected only by a request of an admin or of
\* the reporter of the claim's own item.
C10_ResolvedByOwnerOrAdmin ==
    [][\A c \in ClaimIds :
          (claims'[c].status # claims[c].status /\ claims'[c].status \in Resolved)
              => \E a \in UserIds :
                    /\ IsAdmin(a) \/ items[claims[c].item].reportedBy = a
                    /\ ResolvingRequestBy(a)]_vars

\* C11: an approve request by a user who is neither an admin nor the reporter of
\* the claim's item changes no claim and no item.
C11_ForbiddenApprove ==
    [][\A a \in UserIds, c \in ClaimParams :
          (/\ c \in ClaimIds
           /\ ~IsAdmin(a)
           /\ items[claims[c].item].reportedBy # a
           /\ \/ \E i \in ItemParams : OwnerApprove(a, i, c)
              \/ AdminApprove(a, c)
              \/ FinderApprove(a, c))
          => UNCHANGED <<claims, items>>]_vars

InvalidStateReplies == {"item_not_available", "cannot_claim_own_item", "already_claimed"}

\* C13: a submission on an item that is not available creates no claim and leaves
\* every item as it is; with a message it is answered by an InvalidState error.
C13_NotAvailableRefused ==
    [][\/ (UNCHANGED <<claims, items>> /\ resp' \in InvalidStateReplies)
       \/ \A u \in UserIds, i \in ItemParams :
            (i \in ItemIds /\ items[i].status # "available")
            => /\ \/ (UNCHANGED <<claims, items>> /\ resp' # "claim_submitted")
                  \/ ~((\E msgOk \in BOOLEAN : SubmitClaim(u, i, msgOk))
                          \/ FinderSubmit(u, i))
               /\ resp' \in InvalidStateReplies \/ ~SubmitClaim(u, i, TRUE)]_vars

\* C13 witness: a submission was refused on an item whose reporter was deleted,
\* while another item is returned and a third state, claim_pending, also occurs.
C13_Witness ==
    /\ resp = "item_not_available"
    /\ \E i \in ItemIds : items[i].status = "owner_deleted"
    /\ \E i \in ItemIds : items[i].status \in {"returned", "claim_pending"}

\* The end state the spec gives to approve and to mark returned, for the item i
\* and the claim c the request names; nothing else is written.
ReturnedTo(i, c) ==
    /\ claims'[c].status = "approved"
    /\ \A k \in ClaimIds \ {c} :
          IF claims[k].item = i /\ claims[k].status = "pending"
          THEN claims'[k] = [claims[k] EXCEPT !.status = "rejected"]
          ELSE claims'[k] = claims[k]
    /\ claims'[c] = [claims[c] EXCEPT !.status = "approved"]
    /\ DOMAIN claims' = DOMAIN claims
    /\ items'[i] = [items[i] EXCEPT !.status = "returned", !.claimedBy = claims[c].claimant]
    /\ \A j \in ItemIds \ {i} : items'[j] = items[j]
    /\ DOMAIN items' = DOMAIN items

LiveCounts(i) ==
    [totalClaims |-> Cardinality({k \in ClaimIds : claims[k].item = i}),
     pendingClaims |-> Cardinality(ClaimsOf(claims, i, "pending")),
     approvedClaims |-> Cardinality(ClaimsOf(claims, i, "approved"))]

\* C14: a recomputation whose item's claims have not changed since it read them
\* stores the live counts of the item's claims (total, pending, approved); so
\* repeated recomputations, in any order, store the same values.
C14_StatsMatchClaims ==
    [][\A t \in BagToSet(tasks) :
          (/\ t.pc = "write"
           /\ t.found = FindClaims(claims, t.item)
           /\ StatsWrite(t))
          => stats'[t.item] = LiveCounts(t.item)]_vars

\* C14 witness: the stored counts of an item with one approved and one rejected
\* claim are the live counts, and no recomputation is outstanding.
C14_Witness ==
    /\ tasks = EmptyBag
    /\ \E i \in ItemIds :
          /\ stats[i] = LiveCounts(i)
          /\ stats[i].totalClaims = 2
          /\ stats[i].approvedClaims = 1
          /\ stats[i].pendingClaims = 0

\* C15: once every scheduled recomputation has completed, and the latest claim
\* write of each item was followed by a recomputation's read, the cached stats of
\* every item equal the live counts of its claims.
C15_StatsSettle ==
    (tasks = EmptyBag /\ unseen = {})
        => \A i \in ItemIds : stats[i] = LiveCounts(i)

\* C16: whenever claims of an item were created, updated or deleted and no
\* recomputation has read them since, a recomputation for that item is scheduled
\* and has yet to read.
C16_WriteSchedulesRecompute ==
    \A i \in unseen \cap ItemIds :
        \E t \in BagToSet(tasks) : t.item = i /\ t.pc = "timer"

\* C17: a notification list never holds more than 50 entries and is ordered
\* newest first; a call on a list of 50 puts the new entry in front of the 49
\* newest entries, in their order, and drops the oldest.
C17_NotificationCap ==
    /\ [](\A u \in UserIds :
            /\ Len(notes[u]) <= NotificationCap
            /\ \A n \in 1..(Len(notes[u]) - 1) : notes[u][n].id > notes[u][n + 1].id)
    /\ [][\A u \in UserIds :
            (Len(notes[u]) = NotificationCap /\ Notify(u))
            => /\ Len(notes'[u]) = NotificationCap
               /\ Tail(notes'[u]) = SubSeq(notes[u], 1, NotificationCap - 1)
               /\ Head(notes'[u]).id > Head(notes[u]).id]_vars

\* C17 witness: a full list whose oldest entries have been dropped.
C17_Witness ==
    \E u \in UserIds :
        /\ Len(notes[u]) = NotificationCap
        /\ notes[u][NotificationCap].id = 3
        /\ Head(notes[u]).id = NotificationCap + 2

\* The email or the notification of the last request failed.
SideEffectFailed(e) == e.mail = "failed" \/ e.note = "failed"

\* C18: when the email or the notification append of a claim submission, an
\* approval, a rejection or a mark-returned fails, the request still answers with
\* its success code and the claim status and item status it wrote are the ones of
\* the request without the failure: exactly one pending claim added and the item
\* claim_pending; the claim approved and the item returned to its claimant; the
\* claim rejected and the item available again when no pending claim is left.
C18_SideEffectFailureKept ==
    [][ ~SideEffectFailed(effects') \/
        /\ \A u \in UserIds, i \in ItemIds :
              (\E mailOk \in BOOLEAN, noteOk \in BOOLEAN :
                    SubmitClaimNotify(u, i, TRUE, mailOk, noteOk))
              => /\ resp' = "claim_submitted"
                 /\ claims' = Append(claims, [item |-> i, claimant |-> u,
                                              owner |-> items[i].reportedBy,
                                              status |-> "pending"])
                 /\ items' = [items EXCEPT ![i].status = "claim_pending"]
        /\ \A u \in UserIds, i \in ItemIds, c \in ClaimIds :
              /\ OwnerApproveNotify(u, i, c, FALSE)
                 => /\ resp' = "claim_approved"
                    /\ claims'[c].status = "approved"
                    /\ ClaimsOf(claims', i, "pending") = {}
                    /\ items' = [items EXCEPT ![i].status = "returned",
                                              ![i].claimedBy = claims[c].claimant]
              /\ OwnerRejectNotify(u, i, c, FALSE)
                 => /\ resp' = "claim_rejected"
                    /\ claims' = [claims EXCEPT ![c].status = "rejected"]
                    /\ items' = [items EXCEPT ![i].status =
                                    IF ClaimsOf(claims', i, "pending") = {}
                                    THEN "available" ELSE items[i].status]
              /\ MarkReturnedNotify(u, i, c, FALSE)
                 => /\ resp' = "item_returned"
                    /\ claims'[c].status = "approved"
                    /\ ClaimsOf(claims', i, "pending") = {}
                    /\ items' = [items EXCEPT ![i].status = "returned",
                                              ![i].claimedBy = claims[c].claimant]
      ]_vars

\* A submission whose email and whose notification both failed has answered
\* claim_submitted and left its pending claim and the item claim_pending.
C18_Witness ==
    /\ effects = [mail |-> "failed", note |-> "failed"]
    /\ resp = "claim_submitted"
    /\ claims # <<>>
    /\ claims[Len(claims)].status = "pending"
    /\ items[claims[Len(claims)].item].status = "claim_pending"

\* C19: a contact request by the item's owner about a claim of the item appends
\* exactly one entry to the claim's contactHistory whatever the email transport
\* does, and the entry's emailSent is true exactly when the email was sent.
C19_ContactRecordsDelivery ==
    [][ \A u \in UserIds, i \in ItemIds, c \in ClaimIds :
            (/\ items[i].reportedBy = u
             /\ claims[c].item = i
             /\ \E mailOk \in BOOLEAN, noteOk \in BOOLEAN :
                    ContactClaimant(u, i, c, TRUE, mailOk, noteOk))
            => /\ Len(contactHistory'[c]) = Len(contactHistory[c]) + 1
               /\ SubSeq(contactHistory'[c], 1, Len(contactHistory[c])) = contactHistory[c]
               /\ \A d \in ClaimIds \ {c} : contactHistory'[d] = contactHistory[d]
               /\ contactHistory'[c][Len(contactHistory'[c])].emailSent
                    = (effects'.mail = "sent")
      ]_vars

\* C21: a report, a claim submission or an approve issued by an account that is
\* suspended changes no item and no claim.
C21_SuspendedBlocked ==
    [][\A u \in suspended \cap users :
          ((\E t \in ItemTypes : ReportItem(u, t))
              \/ (\E i \in ItemIds : SubmitClaim(u, i, TRUE))
              \/ (\E i \in ItemIds, c \in ClaimIds : OwnerApprove(u, i, c)))
          => UNCHANGED <<items, claims>>]_vars

C23_CategoryInUseKept ==
    [][\A k \in CatIds :
          (categories[k] # NoName /\ categories'[k] = NoName)
          => ItemsIn(categories[k]) = {}]_vars

\* C24: after a rename of a category from its old name to a different new name,
\* every item that had the old name has the new one, no item has the old name, and
\* the items of other categories are as they were.
C24_RenameCascades ==
    [][\A a \in UserIds, k \in CatIds, n \in Names :
          (/\ categories[k] \notin {NoName, n}
           /\ RenameCategory(a, k, n)
           /\ resp' = "category_updated")
          => /\ categories'[k] = n
             /\ \A i \in ItemIds :
                   /\ itemCategory[i] = categories[k] => itemCategory'[i] = n
                   /\ itemCategory[i] # categories[k] => itemCategory'[i] = itemCategory[i]
                   /\ itemCategory'[i] # categories[k]]_vars

\* C24 witness: a rename has moved an item to a name no report carries, next to an
\* item of another category.
C24_Witness ==
    /\ resp = "category_updated"
    /\ \E i \in ItemIds, j \in ItemIds, k \in CatIds :
          /\ itemCategory[i] \notin ReportedNames
          /\ itemCategory[i] = categories[k]
          /\ itemCategory[j] \in ReportedNames

\* C25: the admin's deletion of account u removes no item, leaves every item that
\* u reported with its reporter cleared and status owner_deleted and every other
\* item as it was; and an item becomes owner_deleted in no other request.
C25_DeletionOrphansItems ==
    [][UNCHANGED items \/
       /\ \A a \in UserIds, u \in UserIds :
             (DeleteUser(a, u) /\ resp' \in {"user_deleted", "user_not_found"})
             => /\ DOMAIN items' = DOMAIN items
                /\ \A i \in ItemIds :
                      IF items[i].reportedBy = u
                      THEN /\ items'[i].reportedBy = NoUser
                           /\ items'[i].status = "owner_deleted"
                      ELSE items'[i] = items[i]
       /\ (\E i \in ItemIds : /\ items'[i].status = "owner_deleted"
                              /\ items[i].status # "owner_deleted")
          => \E a \in AdminIds : \E u \in UserIds \ {a} : DeleteUser(a, u)]_vars

\* C25 witness: after a deletion, an item of the deleted account is orphaned next
\* to an item of a stored account that kept its reporter and status.
C25_Witness ==
    /\ resp = "user_deleted"
    /\ \E i \in ItemIds, j \in ItemIds :
          /\ items[i].reportedBy = NoUser /\ items[i].status = "owner_deleted"
          /\ items[j].reportedBy \in users /\ items[j].status # "owner_deleted"

\* C26: at every point of an approve or a mark returned, interrupted or not, an
\* item that is returned has no pending claim left: the siblings are rejected
\* before the item is written.
C26_SiblingsBeforeItem ==
    \A i \in ItemIds : items[i].status = "returned" => ClaimsOf(claims, i, "pending") = {}
\* C27: a mark-all-read or a mark-one-read of session user u keeps the length, the
\* ids and the order of u's list and changes no entry other than setting isRead
\* (every entry for mark-all, the entry of the id named for mark-one); a clear-all
\* leaves u's list empty; and none of the three changes the list of another user.
C27_OwnListOnly ==
    [][\A u \in UserIds :
          LET old == notes[u]
              new == notes'[u]
              Kept == /\ Len(new) = Len(old)
                      /\ \A n \in DOMAIN old :
                            new[n].id = old[n].id /\ (old[n].isRead => new[n].isRead)
              Others == \A v \in UserIds \ {u} : notes'[v] = notes[v]
          IN  /\ MarkAllRead(u)
                 => Kept /\ Others /\ \A n \in DOMAIN new : new[n].isRead
              /\ \A id \in NotificationIds :
                    MarkOneRead(u, id)
                    => /\ Kept /\ Others
                       /\ \A n \in DOMAIN old :
                             new[n].isRead = (old[n].isRead \/ old[n].id = id)
              /\ ClearAll(u) => new = <<>> /\ Others]_vars

\* C27 witness: a mark-one-read has left one entry of a two-entry list read and
\* the other unread, while another user holds an unread entry.
C27_Witness ==
    /\ resp = "marked_read"
    /\ \E u \in UserIds, v \in UserIds :
          /\ u # v
          /\ Len(notes[u]) = 2
          /\ notes[u][1].isRead /\ ~notes[u][2].isRead
          /\ notes[v] # <<>> /\ ~notes[v][1].isRead

\* C28: between requests, an item whose status is claim_pending has at least one
\* pending claim, also after an admin has deleted the user who held the only one.
C28_ClaimPendingHasPending ==
    \A i \in ItemIds :
        items[i].status = "claim_pending" => ClaimsOf(claims, i, "pending") # {}

\* C29: between requests that do not overlap, an item whose status is available
\* has no pending claim, and no item has more than one pending claim.
C29_PendingMatchesStatus ==
    \A i \in ItemIds :
        /\ items[i].status = "available" => ClaimsOf(claims, i, "pending") = {}
        /\ Cardinality(ClaimsOf(claims, i, "pending")) <= 1

\* C30: between requests, an item is returned exactly when one claim on it, and
\* no more, is approved, and the item's claimedBy is then that claim's claimant.
C30_ReturnedIffOneApproved ==
    \A i \in ItemIds :
        LET approved == ClaimsOf(claims, i, "approved")
        IN  /\ items[i].status = "returned" <=> Cardinality(approved) = 1
            /\ items[i].status = "returned"
               => \A c \in approved : items[i].claimedBy = claims[c].claimant

====
